---- MODULE Spec2Model ----
(***************************************************************************)
(* Personalised Learning Assistant: the progress store (tools.py), the     *)
(* difficulty policy, the recommendations, the personalisation engine, the *)
(* quiz parser and evaluator (quiz_agent.py), the research agent's error   *)
(* handling and the orchestrator's operations.                             *)
(*                                                                         *)
(* Python strings the code computes on (quiz text, labels) are sequences   *)
(* of one-character strings; identifiers the code only passes around       *)
(* (user ids, topics, tier names) are TLA+ strings.                        *)
(***************************************************************************)
EXTENDS Integers, Sequences, FiniteSets, TLC

VARIABLES
    data,        \* content of the progress file: user id -> progress record
    result,      \* outcome of the last engine / orchestrator call
    cfg,         \* the Config object (thresholds, recent window)
    history,     \* difficulty policy: first input history
    history2,    \* difficulty policy: second input history
    window,      \* difficulty policy: recent_count argument
    tier,        \* difficulty policy: result for history
    tier2,       \* difficulty policy: result for history2
    disk,        \* save_user_progress: the progress file as it is on disk
    save_pc,     \* save_user_progress: position of the running call
    save_args,   \* save_user_progress: user_id and progress_data of the call
    save_mem,    \* save_user_progress: the local variable data
    disk_before, \* save_user_progress: the file when the call began
    parse_text,  \* _parse_quiz: the text given to the parser
    parsed,      \* _parse_quiz: its outcome
    eval_questions, \* evaluate_quiz: the questions argument
    eval_answers,   \* evaluate_quiz: the user_answers argument
    evaluated       \* evaluate_quiz: its outcome

storeVars == <<data, result>>
policyVars == <<history, history2, window, tier, tier2>>
saveVars == <<disk, save_pc, save_args, save_mem, disk_before>>
parseVars == <<parse_text, parsed>>
evalVars == <<eval_questions, eval_answers, evaluated>>

vars == <<data, result, cfg, history, history2, window, tier, tier2,
          disk, save_pc, save_args, save_mem, disk_before,
          parse_text, parsed, eval_questions, eval_answers, evaluated>>

-----------------------------------------------------------------------------
(* Bounds of the model *)

MaxRecords == 4      \* quiz records held by the whole store
MaxWindow == 4       \* recent_count arguments tried: 0..MaxWindow
MaxHistoryLen == 3   \* length of the histories given to the policy
MaxQuestions == 2    \* questions of a quiz given to evaluate_quiz

Users == {"u1", "u2"}

\* <<topic, score, total>> arguments given to update_quiz_score
QuizInputs ==
    {<<"t1", 0, 1>>, <<"t1", 1, 1>>, <<"t1", 1, 2>>,
     <<"t2", 2, 1>>, <<"t2", 0, -1>>, <<"t2", 0, 0>>}

\* topics of the quizzes submitted through the orchestrator
SubmissionTopics == {"t1"}

\* <<topic, score, total>> of the records in the histories given to
\* get_recommendations on its own
RecommendInputs ==
    {<<"t1", 0, 1>>, <<"t1", 1, 2>>, <<"t1", 1, 1>>, <<"t1", 323, 404>>}

-----------------------------------------------------------------------------
(* config.py *)

ADVANCED_THRESHOLD == 85
INTERMEDIATE_THRESHOLD == 70
RECENT_SCORES_COUNT == 3

Config ==
    [ADVANCED_THRESHOLD |-> ADVANCED_THRESHOLD,
     INTERMEDIATE_THRESHOLD |-> INTERMEDIATE_THRESHOLD,
     RECENT_SCORES_COUNT |-> RECENT_SCORES_COUNT]

\* Settings of the two cut points with ADVANCED > INTERMEDIATE: the defaults
\* and two retuned configurations.
Configs ==
    {Config,
     [Config EXCEPT !.ADVANCED_THRESHOLD = 90],
     [Config EXCEPT !.INTERMEDIATE_THRESHOLD = 60]}

-----------------------------------------------------------------------------
(* Percentages.  (score / total) * 100 is a rational number; it is held   *)
(* exactly, in units of 1/PctScale percent, PctScale the least common     *)
(* multiple of the totals the model uses.  A percentage rounded to one    *)
(* decimal place is held in tenths of a percent.                          *)

Abs(n) == IF n < 0 THEN 0 - n ELSE n

InputTotals ==
    ({Abs(in[3]) : in \in QuizInputs \cup RecommendInputs} \ {0})
        \cup 1..MaxQuestions

RECURSIVE Product(_)
Product(ns) ==
    IF ns = {} THEN 1
    ELSE LET n == CHOOSE x \in ns : TRUE IN n * Product(ns \ {n})

PctScale ==
    CHOOSE m \in 1..Product(InputTotals) :
        /\ \A n \in InputTotals : m % n = 0
        /\ \A k \in 1..(m - 1) : \E n \in InputTotals : k % n # 0

\* (score / total) * 100, total # 0
Percentage(score, total) ==
    LET q == (Abs(score) * 100 * PctScale) \div Abs(total)
    IN  IF (score < 0) = (total < 0) THEN q ELSE 0 - q

RECURSIVE SumPercentage(_)
SumPercentage(scores) ==
    IF scores = <<>> THEN 0
    ELSE Head(scores).percentage + SumPercentage(Tail(scores))

Min(a, b) == IF a < b THEN a ELSE b

\* round(total_pct / n, 1), n > 0, in tenths of a percent: the nearest tenth,
\* a tie going to the even one
Round1(total_pct, n) ==
    LET den == n * PctScale
        num == 10 * total_pct
        q == num \div den
        r == num - q * den
    IN  IF 2 * r > den THEN q + 1
        ELSE IF 2 * r < den THEN q
        ELSE IF q % 2 = 0 THEN q ELSE q + 1

-----------------------------------------------------------------------------
(* tools.py: calculate_difficulty *)

\* quiz_scores[-recent_count:] : Python slice from index -recent_count
RecentSlice(quiz_scores, recent_count) ==
    LET n == Len(quiz_scores)
        start == IF recent_count > 0
                 THEN (IF recent_count >= n THEN 0 ELSE n - recent_count)
                 ELSE Min(0 - recent_count, n)    \* -0 is index 0
    IN  SubSeq(quiz_scores, start + 1, n)

calculate_difficulty(quiz_scores, recent_count) ==
    IF quiz_scores = <<>> THEN "beginner"
    ELSE LET recent_scores == RecentSlice(quiz_scores, recent_count)
             total_pct == SumPercentage(recent_scores)
             n == Len(recent_scores)
         IN  \* avg_percentage = total_pct / n compared with the literals 85, 70
             IF n = 0 THEN "ZeroDivisionError"
             ELSE IF total_pct >= 85 * PctScale * n THEN "advanced"
             ELSE IF total_pct >= 70 * PctScale * n THEN "intermediate"
             ELSE "beginner"

-----------------------------------------------------------------------------
(* Python string operations used by quiz_agent.py *)

NL == "\n"

IsSpace(c) == c \in {" ", NL}

RECURSIVE LStrip(_)
LStrip(s) ==
    IF s = <<>> THEN s
    ELSE IF IsSpace(Head(s)) THEN LStrip(Tail(s)) ELSE s

RECURSIVE RStrip(_)
RStrip(s) ==
    IF s = <<>> THEN s
    ELSE IF IsSpace(s[Len(s)]) THEN RStrip(SubSeq(s, 1, Len(s) - 1)) ELSE s

\* str.strip()
Strip(s) == RStrip(LStrip(s))

\* str.startswith(prefix)
StartsWith(s, prefix) ==
    /\ Len(s) >= Len(prefix)
    /\ SubSeq(s, 1, Len(prefix)) = prefix

\* str.find(sep) + 1: position of the first occurrence of sep, 0 if none
Find(s, sep) ==
    LET hits == {j \in 1..(Len(s) - Len(sep) + 1) :
                    SubSeq(s, j, j + Len(sep) - 1) = sep}
    IN  IF hits = {} THEN 0
        ELSE CHOOSE j \in hits : \A k \in hits : j <= k

\* str.split(sep)
RECURSIVE Split(_, _)
Split(s, sep) ==
    LET j == Find(s, sep)
    IN  IF j = 0 THEN <<s>>
        ELSE <<SubSeq(s, 1, j - 1)>> \o Split(SubSeq(s, j + Len(sep), Len(s)), sep)

\* str.split(sep, 1)
Split1(s, sep) ==
    LET j == Find(s, sep)
    IN  IF j = 0 THEN <<s>>
        ELSE <<SubSeq(s, 1, j - 1), SubSeq(s, j + Len(sep), Len(s))>>

UpperChar(c) ==
    CASE c = "a" -> "A"
      [] c = "b" -> "B"
      [] c = "c" -> "C"
      [] c = "d" -> "D"
      [] c = "e" -> "E"
      [] c = "x" -> "X"
      [] c = "n" -> "N"
      [] OTHER -> c

\* str.upper()
Upper(s) == [i \in 1..Len(s) |-> UpperChar(s[i])]

-----------------------------------------------------------------------------
(* quiz_agent.py: QuizAgent._parse_quiz *)

MinLines == 6

EmptyDict == [k \in {} |-> <<>>]

\* dict[key] = value
DictSet(d, key, value) ==
    [k \in DOMAIN d \cup {key} |-> IF k = key THEN value ELSE d[k]]

NewQuestion ==
    [question |-> <<>>, options |-> EmptyDict, correct |-> <<>>,
     explanation |-> <<>>, raised |-> FALSE]

\* the non-empty stripped lines of a block
RECURSIVE StripLines(_)
StripLines(ls) ==
    IF ls = <<>> THEN <<>>
    ELSE LET l == Strip(Head(ls))
         IN  (IF l = <<>> THEN <<>> ELSE <<l>>) \o StripLines(Tail(ls))

BlockLines(block) == StripLines(Split(Strip(block), <<NL>>))

\* first loop: the first line starting with 'Q' gives the question text
RECURSIVE ParseQuestionText(_)
ParseQuestionText(lines) ==
    IF lines = <<>> THEN <<>>
    ELSE LET line == Head(lines)
         IN  IF \/ StartsWith(line, <<"Q">>)
                \/ StartsWith(line, <<"Q", "u", "e", "s", "t", "i", "o", "n">>)
             THEN IF Find(line, <<":">>) # 0
                  THEN Strip(Split1(line, <<":">>)[2])
                  ELSE line
             ELSE ParseQuestionText(Tail(lines))

IsOptionLine(line) ==
    \/ StartsWith(line, <<"A", ")">>)
    \/ StartsWith(line, <<"B", ")">>)
    \/ StartsWith(line, <<"C", ")">>)
    \/ StartsWith(line, <<"D", ")">>)

CorrectPrefix == <<"C", "o", "r", "r", "e", "c", "t", ":">>
ExplanationPrefix == <<"E", "x", "p", "l", "a", "n", "a", "t", "i", "o", "n", ":">>

\* one iteration of the second loop
ParseLine(q, line) ==
    IF IsOptionLine(line)
    THEN [q EXCEPT !.options =
             DictSet(q.options, <<line[1]>>, Strip(SubSeq(line, 3, Len(line))))]
    ELSE IF StartsWith(line, CorrectPrefix)
    THEN LET correct_text == Strip(Split(line, <<":">>)[2])
         IN  IF correct_text = <<>>
             THEN [q EXCEPT !.raised = TRUE]          \* correct_text[0]: IndexError
             ELSE [q EXCEPT !.correct = Upper(<<correct_text[1]>>)]
    ELSE IF StartsWith(line, ExplanationPrefix)
    THEN [q EXCEPT !.explanation = Strip(Split1(line, <<":">>)[2])]
    ELSE q

\* second loop: options, correct answer, explanation
RECURSIVE ParseLines(_, _)
ParseLines(q, lines) ==
    IF lines = <<>> \/ q.raised THEN q
    ELSE ParseLines(ParseLine(q, Head(lines)), Tail(lines))

\* a slip that also demands an explanation before a question is kept
HasRequiredAndExplanation(q) ==
    q.question # <<>> /\ q.options # EmptyDict /\ q.correct # <<>>
        /\ q.explanation # <<>>

\* line 129: question, options and correct are all non-empty
HasRequired(q) ==
    q.question # <<>> /\ q.options # EmptyDict /\ q.correct # <<>>

\* the body of the loop over blocks: <<>> (skipped), <<question>>, or a raise
ParseBlock(block) ==
    IF Strip(block) = <<>> THEN [raised |-> FALSE, questions |-> <<>>]
    ELSE LET lines == BlockLines(block)
         IN  IF Len(lines) < MinLines THEN [raised |-> FALSE, questions |-> <<>>]
             ELSE LET q0 == [NewQuestion EXCEPT !.question = ParseQuestionText(lines)]
                      q == ParseLines(q0, lines)
                  IN  IF q.raised THEN [raised |-> TRUE, questions |-> <<>>]
                      ELSE IF HasRequired(q)
                      THEN [raised |-> FALSE,
                            questions |-> <<[question |-> q.question,
                                             options |-> q.options,
                                             correct |-> q.correct,
                                             explanation |-> q.explanation]>>]
                      ELSE [raised |-> FALSE, questions |-> <<>>]

RECURSIVE ParseBlocks(_)
ParseBlocks(blocks) ==
    IF blocks = <<>> THEN [raised |-> FALSE, questions |-> <<>>]
    ELSE LET first == ParseBlock(Head(blocks))
         IN  IF first.raised THEN first
             ELSE LET rest == ParseBlocks(Tail(blocks))
                  IN  IF rest.raised THEN rest
                      ELSE [raised |-> FALSE,
                            questions |-> first.questions \o rest.questions]

\* _parse_quiz(quiz_text): the list of questions, or an exception
_parse_quiz(quiz_text) == ParseBlocks(Split(quiz_text, <<"-", "-", "-">>))

-----------------------------------------------------------------------------
(* Quiz texts, as the content generation returns them: one or two blocks. *)
(* A block is an optional question line, option lines for a set of        *)
(* letters, an optional correct-answer line, an optional explanation line *)
(* and some note lines.                                                   *)

MaxNotes == 2        \* note lines at the end of a block: 0..MaxNotes

QuestionLines == {<<>>, <<"Q", "1", ":", " ", "x">>, <<"Q", "1", ":">>}
OptionLine(letter) == <<letter, ")", " ", "o">>
OptionLetterSets == SUBSET {"A", "B", "C", "D"}
CorrectLines ==
    {<<>>, CorrectPrefix \o <<" ", "A">>, CorrectPrefix \o <<" ", "b">>,
     CorrectPrefix \o <<" ", "E">>, CorrectPrefix}
ExplanationLines == {<<>>, ExplanationPrefix \o <<" ", "e">>}
NoteLine == <<"n", "b">>

\* "\n".join(lines), empty lines left out
RECURSIVE JoinLines(_)
JoinLines(lines) ==
    IF lines = <<>> THEN <<>>
    ELSE IF Head(lines) = <<>> THEN JoinLines(Tail(lines))
    ELSE Head(lines) \o <<NL>> \o JoinLines(Tail(lines))

LetterOrder == <<"A", "B", "C", "D">>

OptionLines(letters) ==
    [i \in 1..4 |-> IF LetterOrder[i] \in letters
                    THEN OptionLine(LetterOrder[i]) ELSE <<>>]

BlockText(q, letters, c, e, notes) ==
    JoinLines(<<q>> \o OptionLines(letters) \o <<c, e>>
              \o [i \in 1..notes |-> NoteLine])

BlockTexts ==
    {BlockText(q, letters, c, e, notes) :
        q \in QuestionLines, letters \in OptionLetterSets, c \in CorrectLines,
        e \in ExplanationLines, notes \in 0..MaxNotes}

Separator == <<"-", "-", "-">>

\* the block the prompt of generate_quiz asks for
PromptBlock ==
    BlockText(<<"Q", "2", ":", " ", "y">>, {"A", "B", "C", "D"},
              CorrectPrefix \o <<" ", "B">>, ExplanationPrefix \o <<" ", "e">>, 0)

\* complete blocks in which the generated text of the question, of an option
\* or of the explanation contains the separator token
EmbeddedPlaces == {"question", "option", "explanation"}

EmbeddedText(place, word, at) ==
    IF place = at THEN word \o Separator \o <<"z">> ELSE word

EmbeddedBlock(at) ==
    JoinLines(<<<<"Q", "1", ":", " ">> \o EmbeddedText("question", <<"x">>, at),
                <<"A", ")", " ">> \o EmbeddedText("option", <<"o">>, at),
                OptionLine("B"), OptionLine("C"), OptionLine("D"),
                CorrectPrefix \o <<" ", "A">>,
                ExplanationPrefix \o <<" ">>
                    \o EmbeddedText("explanation", <<"e">>, at)>>)

EmbeddedBlocks == {EmbeddedBlock(at) : at \in EmbeddedPlaces}

QuizTexts ==
    BlockTexts \cup {b \o Separator \o <<NL>> \o PromptBlock : b \in BlockTexts}
        \cup EmbeddedBlocks
        \cup {b \o Separator \o <<NL>> \o PromptBlock : b \in EmbeddedBlocks}

\* texts generated for the quiz prompt of create_learning_package: the block
\* asked for, and a block whose correct-answer line names no letter
GeneratedQuizTexts ==
    {PromptBlock,
     BlockText(<<"Q", "1", ":", " ", "x">>, {"A", "B", "C", "D"},
               CorrectPrefix, <<>>, 0)}

\* what QuizAgent.generate_quiz makes of them: _parse_quiz(response.text)
GeneratedQuizzes == {_parse_quiz(quiz_text) : quiz_text \in GeneratedQuizTexts}

-----------------------------------------------------------------------------
(* quiz_agent.py: QuizAgent.evaluate_answer, QuizAgent.evaluate_quiz *)

\* a slip that compares the labels as written
evaluate_answer_exact(question, user_answer) ==
    [correct |-> user_answer = question.correct,
     explanation |-> question.explanation,
     correct_answer |-> question.correct]

evaluate_answer(question, user_answer) ==
    [correct |-> Upper(user_answer) = Upper(question.correct),
     explanation |-> question.explanation,
     correct_answer |-> question.correct]

\* user_answers.get(i, "")
AnswerAt(user_answers, i) ==
    IF i \in DOMAIN user_answers THEN user_answers[i] ELSE <<>>

\* the entry appended to results for the question at 0-based index i
EvaluateItem(questions, user_answers, i) ==
    LET question == questions[i + 1]
        user_answer == AnswerAt(user_answers, i)
        evaluation == evaluate_answer(question, user_answer)
    IN  [question_num |-> i + 1,
         question |-> question.question,
         user_answer |-> user_answer,
         correct_answer |-> evaluation.correct_answer,
         is_correct |-> evaluation.correct,
         explanation |-> evaluation.explanation]

\* a slip that takes the percentage over the answered questions only
evaluate_quiz_answered(questions, user_answers) ==
    LET results == [k \in 1..Len(questions) |->
                        EvaluateItem(questions, user_answers, k - 1)]
        score == Cardinality({k \in 1..Len(questions) : results[k].is_correct})
        answered == Cardinality(DOMAIN user_answers)
    IN  [score |-> score,
         total |-> answered,
         percentage |-> IF answered # 0
                        THEN (score * 100 * PctScale) \div answered ELSE 0,
         results |-> results]

evaluate_quiz(questions, user_answers) ==
    LET results == [k \in 1..Len(questions) |->
                        EvaluateItem(questions, user_answers, k - 1)]
        score == Cardinality({k \in 1..Len(questions) : results[k].is_correct})
    IN  [score |-> score,
         total |-> Len(questions),
         percentage |-> IF questions # <<>>
                        THEN Percentage(score, Len(questions)) ELSE 0,
         results |-> results]

-----------------------------------------------------------------------------
(* tools.py: the progress store.  The file holds one JSON object, user id *)
(* -> progress; data is that object.                                      *)

DefaultProgress ==
    [topics_studied |-> <<>>, quiz_scores |-> <<>>,
     current_difficulty |-> "beginner", total_time |-> 0]

\* what a call that returns None, or raises, hands back
NoValue == [none |-> TRUE]

load_user_progress(d, user_id) ==
    IF user_id \in DOMAIN d THEN d[user_id] ELSE DefaultProgress

\* a slip that keeps the record a user already has
save_user_progress_setdefault(d, user_id, progress_data) ==
    IF user_id \in DOMAIN d THEN d ELSE DictSet(d, user_id, progress_data)

\* a slip that dumps the saved record alone, without the records read
save_user_progress_alone(d, user_id, progress_data) ==
    DictSet(EmptyDict, user_id, progress_data)

\* the content of the file after save_user_progress returns
save_user_progress(d, user_id, progress_data) ==
    DictSet(d, user_id, progress_data)

\* the suggestion texts of get_recommendations
StartMessage == "Start your learning journey!"
AdvanceMessage == "Great progress! Try more advanced topics."
ContinueMessage == "Good work! Keep practising to improve."
ReviewMessage == "Review fundamentals and try easier topics."

\* get_recommendations: avg_score = total_pct / n is rounded for
\* average_score and compared as it is with 80 and 60 for the suggestion
get_recommendations(d, user_id) ==
    LET progress == load_user_progress(d, user_id)
        n == Len(progress.quiz_scores)
        total_pct == SumPercentage(progress.quiz_scores)
    IN  [difficulty |-> progress.current_difficulty,
         topics_completed |-> Len(progress.topics_studied),
         average_score |-> IF n > 0 THEN Round1(total_pct, n) ELSE 0,
         suggestion |->
             IF n > 0
             THEN IF total_pct >= 80 * PctScale * n THEN AdvanceMessage
                  ELSE IF total_pct >= 60 * PctScale * n THEN ContinueMessage
                  ELSE ReviewMessage
             ELSE StartMessage]

-----------------------------------------------------------------------------
(* tools.py: save_user_progress step by step, on the file itself.  The    *)
(* file is absent or holds the chunks written to it so far; json.dump     *)
(* writes the object chunk by chunk (an opening brace, one entry per      *)
(* user, a closing brace) into the file that open(path, 'w') has emptied. *)

UserOrder == <<"u1", "u2">>

\* JSON values: a string, a number, an array, an object (its members in the
\* order they are written)
JString(s) == [str |-> s]
JNumber(n) == [num |-> n]
JArray(items) == [arr |-> items]
JObject(members) == [obj |-> members]
Member(key, value) == [key |-> key, val |-> value]

\* json.dump of a quiz record and of a progress dictionary
EncodeRecord(r) ==
    JObject(<<Member("topic", JString(r.topic)),
              Member("score", JNumber(r.score)),
              Member("total", JNumber(r.total)),
              Member("percentage", JNumber(r.percentage))>>)

EncodeProgress(p) ==
    JObject(<<Member("topics_studied",
                     JArray([i \in 1..Len(p.topics_studied) |->
                                JString(p.topics_studied[i])])),
              Member("quiz_scores",
                     JArray([i \in 1..Len(p.quiz_scores) |->
                                EncodeRecord(p.quiz_scores[i])])),
              Member("current_difficulty", JString(p.current_difficulty)),
              Member("total_time", JNumber(p.total_time))>>)

\* json.load of a JSON value: str, number, list, or dict (of the members
\* with one key the last one counts)
RECURSIVE Decode(_)
Decode(j) ==
    IF "str" \in DOMAIN j THEN j.str
    ELSE IF "num" \in DOMAIN j THEN j.num
    ELSE IF "arr" \in DOMAIN j THEN [i \in 1..Len(j.arr) |-> Decode(j.arr[i])]
    ELSE LET ms == j.obj
             last(k) == CHOOSE i \in 1..Len(ms) :
                           /\ ms[i].key = k
                           /\ \A i2 \in (i + 1)..Len(ms) : ms[i2].key # k
         IN  [k \in {ms[i].key : i \in 1..Len(ms)} |-> Decode(ms[last(k)].val)]

Brace(b) == [kind |-> b, user |-> "", progress |-> JObject(<<>>)]
Entry(u, p) == [kind |-> "entry", user |-> u, progress |-> EncodeProgress(p)]

RECURSIVE Entries(_, _)
Entries(d, us) ==
    IF us = <<>> THEN <<>>
    ELSE (IF Head(us) \in DOMAIN d THEN <<Entry(Head(us), d[Head(us)])>> ELSE <<>>)
         \o Entries(d, Tail(us))

\* json.dump(d): the chunks of the text
Serialize(d) == <<Brace("{")>> \o Entries(d, UserOrder) \o <<Brace("}")>>

FileOf(d) == [exists |-> TRUE, text |-> Serialize(d)]
NoFile == [exists |-> FALSE, text |-> <<>>]

\* json.load succeeds on the text of file f: it is the dump of an object
Readable(f) ==
    /\ Len(f.text) >= 2
    /\ f.text[1] = Brace("{")
    /\ f.text[Len(f.text)] = Brace("}")
    /\ \A i \in 2..(Len(f.text) - 1) : f.text[i].kind = "entry"

\* json.load: the object a readable text holds
Parsed(f) ==
    LET es == SubSeq(f.text, 2, Len(f.text) - 1)
    IN  [u \in {es[i].user : i \in 1..Len(es)} |->
            Decode((CHOOSE e \in {es[i] : i \in 1..Len(es)} : e.user = u).progress)]

NoCall == [user_id |-> "none", progress_data |-> DefaultProgress]

SaveIdle ==
    /\ save_pc = "idle"
    /\ save_args = NoCall
    /\ save_mem = EmptyDict

\* save_user_progress(user_id, progress_data) is called
SaveCall(user_id, progress_data) ==
    /\ save_pc = "idle"
    /\ save_pc' = "read"
    /\ save_args' = [user_id |-> user_id, progress_data |-> progress_data]
    /\ disk_before' = disk
    /\ result' = [op |-> "save_user_progress", user |-> user_id,
                  status |-> "running", value |-> NoValue]
    /\ UNCHANGED <<disk, save_mem>>
    /\ UNCHANGED <<data, cfg, policyVars, parseVars, evalVars>>

\* lines 53-59: read the file (or start from {}), set data[user_id]
SaveRead ==
    /\ save_pc = "read"
    /\ IF ~disk.exists
       THEN /\ save_mem' = save_user_progress(EmptyDict, save_args.user_id,
                                              save_args.progress_data)
            /\ save_pc' = "open"
       ELSE IF Readable(disk)
       THEN /\ save_mem' = save_user_progress(Parsed(disk), save_args.user_id,
                                              save_args.progress_data)
            /\ save_pc' = "open"
       ELSE \* json.load raises JSONDecodeError
            /\ save_mem' = save_mem
            /\ save_pc' = "raised"
    /\ result' = [result EXCEPT !.status =
                      IF save_pc' = "raised" THEN "JSONDecodeError" ELSE @]
    /\ UNCHANGED <<disk, save_args, disk_before>>
    /\ UNCHANGED <<data, cfg, policyVars, parseVars, evalVars>>

\* line 61: open(storage_path, 'w') creates or empties the file
SaveOpen ==
    /\ save_pc = "open"
    /\ disk' = [exists |-> TRUE, text |-> <<>>]
    /\ save_pc' = "dump"
    /\ UNCHANGED <<save_args, save_mem, disk_before>>
    /\ UNCHANGED <<storeVars, cfg, policyVars, parseVars, evalVars>>

\* line 62: json.dump writes the next chunk
SaveWrite ==
    /\ save_pc = "dump"
    /\ Len(disk.text) < Len(Serialize(save_mem))
    /\ disk' = [disk EXCEPT !.text = Append(@, Serialize(save_mem)[Len(@) + 1])]
    /\ UNCHANGED <<save_pc, save_args, save_mem, disk_before>>
    /\ UNCHANGED <<storeVars, cfg, policyVars, parseVars, evalVars>>

\* the with block ends: the file is closed and the call returns
SaveReturn ==
    /\ save_pc = "dump"
    /\ Len(disk.text) = Len(Serialize(save_mem))
    /\ save_pc' = "done"
    /\ result' = [result EXCEPT !.status = "ok"]
    /\ UNCHANGED <<disk, save_args, save_mem, disk_before>>
    /\ UNCHANGED <<data, cfg, policyVars, parseVars, evalVars>>

\* the process dies inside the call; the file stays as it is
Crash ==
    /\ save_pc \in {"read", "open", "dump"}
    /\ save_pc' = "crashed"
    /\ UNCHANGED <<disk, save_args, save_mem, disk_before>>
    /\ UNCHANGED <<storeVars, cfg, policyVars, parseVars, evalVars>>

\* a new process, or the caller after a return or an exception
Resume ==
    /\ save_pc \in {"done", "raised", "crashed"}
    /\ save_pc' = "idle"
    /\ save_args' = NoCall
    /\ save_mem' = EmptyDict
    /\ UNCHANGED <<disk, disk_before>>
    /\ UNCHANGED <<storeVars, cfg, policyVars, parseVars, evalVars>>

\* a slip that answers an unreadable file with the default record
LoadUserProgressLenient(user_id) ==
    /\ save_pc \in {"idle", "done", "raised"}
    /\ disk' = IF disk.exists THEN disk ELSE FileOf(EmptyDict)
    /\ result' = [op |-> "load_user_progress", user |-> user_id,
                  status |-> "ok",
                  value |-> IF disk.exists /\ Readable(disk)
                            THEN load_user_progress(Parsed(disk), user_id)
                            ELSE DefaultProgress]
    /\ UNCHANGED <<save_pc, save_args, save_mem, disk_before>>
    /\ UNCHANGED <<data, cfg, policyVars, parseVars, evalVars>>

\* load_user_progress(user_id) on the file, called between saves: an absent
\* file is created holding {}; json.load raises on an unreadable text
LoadUserProgress(user_id) ==
    /\ save_pc \in {"idle", "done", "raised"}
    /\ IF ~disk.exists
       THEN /\ disk' = FileOf(EmptyDict)
            /\ result' = [op |-> "load_user_progress", user |-> user_id,
                          status |-> "ok",
                          value |-> load_user_progress(EmptyDict, user_id)]
       ELSE IF Readable(disk)
       THEN /\ disk' = disk
            /\ result' = [op |-> "load_user_progress", user |-> user_id,
                          status |-> "ok",
                          value |-> load_user_progress(Parsed(disk), user_id)]
       ELSE /\ disk' = disk
            /\ result' = [op |-> "load_user_progress", user |-> user_id,
                          status |-> "JSONDecodeError", value |-> NoValue]
    /\ UNCHANGED <<save_pc, save_args, save_mem, disk_before>>
    /\ UNCHANGED <<data, cfg, policyVars, parseVars, evalVars>>

-----------------------------------------------------------------------------
(* personalisation_engine.py: PersonalisationEngine *)

InList(x, list) == \E i \in 1..Len(list) : list[i] = x

\* a slip that drops the configured window: the whole history is averaged
_calculate_difficulty_whole(quiz_scores) ==
    calculate_difficulty(quiz_scores, 0)

_calculate_difficulty(quiz_scores) ==
    calculate_difficulty(quiz_scores, cfg.RECENT_SCORES_COUNT)

\* the record update_quiz_score appends (the timestamp, a clock reading no
\* operation reads back, is not held)
QuizRecord(topic, score, total) ==
    [topic |-> topic, score |-> score, total |-> total,
     percentage |-> Percentage(score, total)]

\* a slip that never lowers the tier a user holds
UpdatedProgressRatchet(d, user_id, topic, score, total) ==
    LET progress == load_user_progress(d, user_id)
        quiz_scores == Append(progress.quiz_scores, QuizRecord(topic, score, total))
        topics_studied == IF InList(topic, progress.topics_studied)
                          THEN progress.topics_studied
                          ELSE Append(progress.topics_studied, topic)
        computed == _calculate_difficulty(quiz_scores)
        held == progress.current_difficulty
    IN  [progress EXCEPT
            !.quiz_scores = quiz_scores,
            !.topics_studied = topics_studied,
            !.current_difficulty =
                IF held = "advanced" \/ (held = "intermediate" /\ computed = "beginner")
                THEN held ELSE computed]

\* a slip that puts the new record first
UpdatedProgressPrepending(d, user_id, topic, score, total) ==
    LET progress == load_user_progress(d, user_id)
        quiz_scores == <<QuizRecord(topic, score, total)>> \o progress.quiz_scores
        topics_studied == IF InList(topic, progress.topics_studied)
                          THEN progress.topics_studied
                          ELSE Append(progress.topics_studied, topic)
    IN  [progress EXCEPT
            !.quiz_scores = quiz_scores,
            !.topics_studied = topics_studied,
            !.current_difficulty = _calculate_difficulty(quiz_scores)]

\* the progress update_quiz_score saves and returns, total # 0
UpdatedProgress(d, user_id, topic, score, total) ==
    LET progress == load_user_progress(d, user_id)
        quiz_scores == Append(progress.quiz_scores, QuizRecord(topic, score, total))
        topics_studied == IF InList(topic, progress.topics_studied)
                          THEN progress.topics_studied
                          ELSE Append(progress.topics_studied, topic)
    IN  [progress EXCEPT
            !.quiz_scores = quiz_scores,
            !.topics_studied = topics_studied,
            !.current_difficulty = _calculate_difficulty(quiz_scores)]

RECURSIVE SumLen(_, _)
SumLen(d, us) ==
    IF us = {} THEN 0
    ELSE LET u == CHOOSE x \in us : TRUE
         IN  Len(d[u].quiz_scores) + SumLen(d, us \ {u})

\* number of quiz records in the store
Records(d) == SumLen(d, DOMAIN d)

\* PersonalisationEngine.update_quiz_score(user_id, topic, score, total)
UpdateQuizScore(user_id, topic, score, total) ==
    /\ Records(data) < MaxRecords
    /\ IF total = 0
       THEN \* (score / total) raises ZeroDivisionError before anything is saved
            /\ data' = data
            /\ result' = [op |-> "update_quiz_score", user |-> user_id,
                          status |-> "ZeroDivisionError", value |-> NoValue]
       ELSE LET progress == UpdatedProgress(data, user_id, topic, score, total)
            IN  /\ data' = save_user_progress(data, user_id, progress)
                /\ result' = [op |-> "update_quiz_score", user |-> user_id,
                              status |-> "ok", value |-> progress]
    /\ UNCHANGED <<cfg, policyVars, saveVars, parseVars, evalVars>>

\* a slip that empties the lists and keeps the difficulty
ResetProgressKeepingDifficulty(user_id) ==
    /\ data' = save_user_progress(data, user_id,
                    [load_user_progress(data, user_id) EXCEPT
                        !.topics_studied = <<>>, !.quiz_scores = <<>>,
                        !.total_time = 0])
    /\ result' = [op |-> "reset_progress", user |-> user_id, status |-> "ok",
                  value |-> NoValue]
    /\ UNCHANGED <<cfg, policyVars, saveVars, parseVars, evalVars>>

\* PersonalisationEngine.reset_progress(user_id)
ResetProgress(user_id) ==
    /\ data' = save_user_progress(data, user_id, DefaultProgress)
    /\ result' = [op |-> "reset_progress", user |-> user_id, status |-> "ok",
                  value |-> NoValue]
    /\ UNCHANGED <<cfg, policyVars, saveVars, parseVars, evalVars>>

\* PersonalisationEngine.save_progress(user_id, progress_data)
SaveProgress(user_id, progress_data) ==
    /\ data' = save_user_progress(data, user_id, progress_data)
    /\ Records(data') <= MaxRecords
    /\ result' = [op |-> "save_progress", user |-> user_id, status |-> "ok",
                  value |-> NoValue]
    /\ UNCHANGED <<cfg, policyVars, saveVars, parseVars, evalVars>>

\* a slip that saves the default record of a user it sees for the first time
LoadProgressPersisting(user_id) ==
    /\ data' = IF user_id \in DOMAIN data THEN data
               ELSE save_user_progress(data, user_id, DefaultProgress)
    /\ result' = [op |-> "load_progress", user |-> user_id, status |-> "ok",
                  value |-> load_user_progress(data, user_id)]
    /\ UNCHANGED <<cfg, policyVars, saveVars, parseVars, evalVars>>

\* PersonalisationEngine.load_progress(user_id)
LoadProgress(user_id) ==
    /\ data' = data
    /\ result' = [op |-> "load_progress", user |-> user_id, status |-> "ok",
                  value |-> load_user_progress(data, user_id)]
    /\ UNCHANGED <<cfg, policyVars, saveVars, parseVars, evalVars>>

\* PersonalisationEngine.get_recommendations(user_id)
GetRecommendations(user_id) ==
    /\ data' = data
    /\ result' = [op |-> "get_recommendations", user |-> user_id,
                  status |-> "ok", value |-> get_recommendations(data, user_id)]
    /\ UNCHANGED <<cfg, policyVars, saveVars, parseVars, evalVars>>

\* PersonalisationEngine.get_progress_summary(user_id)
get_progress_summary(d, user_id) ==
    LET progress == load_user_progress(d, user_id)
        recommendations == get_recommendations(d, user_id)
    IN  [user_id |-> user_id,
         current_difficulty |-> progress.current_difficulty,
         topics_studied |-> progress.topics_studied,
         total_quizzes |-> Len(progress.quiz_scores),
         recent_scores |-> IF progress.quiz_scores # <<>>
                           THEN RecentSlice(progress.quiz_scores, 5) ELSE <<>>,
         average_score |-> recommendations.average_score,
         recommendation |-> recommendations.suggestion]

-----------------------------------------------------------------------------
(* The two external collaborators.  A call of the content generation      *)
(* capability (model.generate_content) returns text or raises; a knowledge *)
(* lookup (wikipedia.summary) returns a summary or raises one of its       *)
(* errors.  The outcome of each call is an input of the operation.         *)

GenerationOutcomes == {"text", "GenerationError"}
LookupOutcomes == {"summary", "DisambiguationError", "PageError", "Exception"}

\* outcomes of the generate_content calls of create_learning_package, by the
\* step that makes the call
GenerationRuns ==
    [research : GenerationOutcomes, plan : GenerationOutcomes,
     quiz : GenerationOutcomes]

\* ResearchAgent.fetch_topic_info: every exception is caught and answered
\* with a dictionary of the same shape
fetch_topic_info(lookup, generated) ==
    IF lookup = "DisambiguationError"
    THEN [raw_info |-> "Multiple topics found",
          structured_summary |-> "Please be more specific"]
    ELSE IF lookup = "PageError"
    THEN [raw_info |-> "Could not find Wikipedia page",
          structured_summary |-> "No Wikipedia page found"]
    ELSE IF lookup = "Exception" \/ generated = "GenerationError"
    THEN [raw_info |-> "Could not fetch Wikipedia info",
          structured_summary |-> "An error occurred while fetching information"]
    ELSE [raw_info |-> "wiki_summary", structured_summary |-> "response.text"]

-----------------------------------------------------------------------------
(* orchestrator.py: LearningOrchestrator *)

\* LearningOrchestrator.get_user_dashboard(user_id)
GetUserDashboard(user_id) ==
    /\ data' = data
    /\ result' = [op |-> "get_user_dashboard", user |-> user_id,
                  status |-> "ok", value |-> get_progress_summary(data, user_id)]
    /\ UNCHANGED <<cfg, policyVars, saveVars, parseVars, evalVars>>

\* LearningOrchestrator.generate_lesson(topic, module_name, user_id): the
\* lesson is the text generated for the user's difficulty
GenerateLesson(user_id, generated) ==
    LET progress == load_user_progress(data, user_id)
        difficulty == progress.current_difficulty
    IN  /\ data' = data
        /\ result' =
              IF generated = "GenerationError"
              THEN [op |-> "generate_lesson", user |-> user_id,
                    status |-> "GenerationError", value |-> NoValue]
              ELSE [op |-> "generate_lesson", user |-> user_id, status |-> "ok",
                    value |-> [lesson |-> "response.text",
                               difficulty |-> difficulty]]
        /\ UNCHANGED <<cfg, policyVars, saveVars, parseVars, evalVars>>

\* LearningOrchestrator.create_learning_package(topic, goal, user_id):
\* lines 73-110.  quiz is _parse_quiz of the text generated for the quiz
\* prompt: a list of questions, or an exception.
CreateLearningPackage(user_id, topic, lookup, generated, quiz) ==
    LET progress == load_user_progress(data, user_id)
        difficulty == progress.current_difficulty
        research_data == fetch_topic_info(lookup, generated.research)
        raised == IF generated.plan = "GenerationError" THEN "GenerationError"
                  ELSE IF generated.quiz = "GenerationError" THEN "GenerationError"
                  ELSE IF quiz.raised THEN "IndexError"
                  ELSE "ok"
    IN  /\ data' = data
        /\ result' =
              IF raised # "ok"
              THEN [op |-> "create_learning_package", user |-> user_id,
                    status |-> raised, value |-> NoValue]
              ELSE [op |-> "create_learning_package", user |-> user_id,
                    status |-> "ok",
                    value |-> [topic |-> topic,
                               goal |-> "goal",
                               difficulty |-> difficulty,
                               research |-> research_data,
                               learning_plan |-> "response.text",
                               quiz |-> quiz.questions]]
        /\ UNCHANGED <<cfg, policyVars, saveVars, parseVars, evalVars>>

\* QuizAgent.evaluate_quiz(questions, user_answers) called on its own
QuizAgentEvaluateQuiz(quiz_questions, user_answers) ==
    /\ data' = data
    /\ result' = [op |-> "QuizAgent.evaluate_quiz", user |-> "none",
                  status |-> "ok",
                  value |-> evaluate_quiz(quiz_questions, user_answers)]
    /\ UNCHANGED <<cfg, policyVars, saveVars, parseVars, evalVars>>

Label(c) == <<c>>

Question(correct) ==
    [question |-> <<"x">>,
     options |-> [k \in {Label("A"), Label("B")} |-> <<"o">>],
     correct |-> correct,
     explanation |-> <<"e">>]

\* quizzes handed to the submission flow
SubmittedQuizzes ==
    {<<>>,
     <<Question(Label("A"))>>,
     <<Question(Label("A")), Question(Label("B"))>>}

\* answer sheets: every index answered "A", or nothing answered
SubmittedAnswers(quiz) ==
    {[i \in 0..(Len(quiz) - 1) |-> Label("A")], EmptyDict}

\* the dictionary evaluate_quiz returns: the evaluation and two more keys
Submission(evaluation, new_difficulty, recommendation) ==
    [score |-> evaluation.score,
     total |-> evaluation.total,
     percentage |-> evaluation.percentage,
     results |-> evaluation.results,
     new_difficulty |-> new_difficulty,
     recommendation |-> recommendation]

\* a slip that asks for the recommendation before the progress is updated
OrchestratorEvaluateQuizStale(quiz_questions, user_answers, topic, user_id) ==
    LET evaluation == evaluate_quiz(quiz_questions, user_answers)
        recommendations == get_recommendations(data, user_id)
    IN  /\ Records(data) < MaxRecords
        /\ IF evaluation.total = 0
           THEN /\ data' = data
                /\ result' = [op |-> "evaluate_quiz", user |-> user_id,
                              status |-> "ZeroDivisionError", value |-> NoValue]
           ELSE LET updated_progress ==
                        UpdatedProgress(data, user_id, topic,
                                        evaluation.score, evaluation.total)
                IN  /\ data' = save_user_progress(data, user_id, updated_progress)
                    /\ result' =
                          [op |-> "evaluate_quiz", user |-> user_id,
                           status |-> "ok",
                           value |-> Submission(evaluation,
                                         updated_progress.current_difficulty,
                                         recommendations.suggestion)]
        /\ UNCHANGED <<cfg, policyVars, saveVars, parseVars, evalVars>>

\* lines 141-162: evaluate, update_quiz_score (load, append, recompute,
\* save), get_recommendations (a load of the saved file), return
OrchestratorEvaluateQuiz(quiz_questions, user_answers, topic, user_id) ==
    LET evaluation == evaluate_quiz(quiz_questions, user_answers)
    IN  /\ Records(data) < MaxRecords
        /\ IF evaluation.total = 0
           THEN \* update_quiz_score raises; the exception leaves evaluate_quiz
                /\ data' = data
                /\ result' = [op |-> "evaluate_quiz", user |-> user_id,
                              status |-> "ZeroDivisionError", value |-> NoValue]
           ELSE LET updated_progress ==
                        UpdatedProgress(data, user_id, topic,
                                        evaluation.score, evaluation.total)
                    saved == save_user_progress(data, user_id, updated_progress)
                    recommendations == get_recommendations(saved, user_id)
                IN  /\ data' = saved
                    /\ result' =
                          [op |-> "evaluate_quiz", user |-> user_id,
                           status |-> "ok",
                           value |-> Submission(evaluation,
                                         updated_progress.current_difficulty,
                                         recommendations.suggestion)]
        /\ UNCHANGED <<cfg, policyVars, saveVars, parseVars, evalVars>>

-----------------------------------------------------------------------------
(* The store and the engine, after PersonalisationEngine.__init__: the file *)
(* exists and holds {}.                                                     *)

NoHistory == <<>>

\* no call has been made yet
NoResult == [op |-> "init", user |-> "none", status |-> "ok", value |-> NoValue]

Idle ==
    /\ data = EmptyDict
    /\ result = NoResult

PolicyIdle ==
    /\ history = NoHistory
    /\ history2 = NoHistory
    /\ window = 0
    /\ tier = "none"
    /\ tier2 = "none"

SaveUnused ==
    /\ SaveIdle
    /\ disk = FileOf(EmptyDict)
    /\ disk_before = FileOf(EmptyDict)

NotParsed == [state |-> "none", questions |-> <<>>]

ParseIdle ==
    /\ parse_text = <<>>
    /\ parsed = NotParsed

NotEvaluated == [state |-> "none", value |-> evaluate_quiz(<<>>, EmptyDict)]

EvalIdle ==
    /\ eval_questions = <<>>
    /\ eval_answers = EmptyDict
    /\ evaluated = NotEvaluated

Init ==
    /\ Idle
    /\ cfg = Config
    /\ PolicyIdle
    /\ SaveUnused
    /\ ParseIdle
    /\ EvalIdle

Next ==
    \/ \E u \in Users, in \in QuizInputs :
          UpdateQuizScore(u, in[1], in[2], in[3])
    \/ \E u \in Users : ResetProgress(u)
    \/ \E u \in Users, t \in SubmissionTopics, quiz \in SubmittedQuizzes :
          \E answers \in SubmittedAnswers(quiz) :
             OrchestratorEvaluateQuiz(quiz, answers, t, u)
    \/ \E u \in Users : LoadProgress(u)

Spec == Init /\ [][Next]_vars

-----------------------------------------------------------------------------
(* The operations that read the progress (SpecRead), on the stores that   *)
(* runs of update_quiz_score calls for u1 leave, u2 having no record or a *)
(* reset one.                                                             *)

\* the store after the calls update_quiz_score(user_id, in[1], in[2], in[3])
\* for the inputs ins, in order, on the store d
RECURSIVE StoreAfter(_, _, _)
StoreAfter(d, user_id, ins) ==
    IF ins = <<>> THEN d
    ELSE LET in == Head(ins)
             progress == UpdatedProgress(d, user_id, in[1], in[2], in[3])
         IN  StoreAfter(save_user_progress(d, user_id, progress), user_id,
                        Tail(ins))

InputRuns == UNION {[1..n -> RecommendInputs] : n \in 0..MaxHistoryLen}

InitRead ==
    /\ cfg = Config
    /\ PolicyIdle
    /\ SaveUnused
    /\ ParseIdle
    /\ EvalIdle
    /\ result = NoResult
    /\ data \in {StoreAfter(d, "u1", ins) :
                    d \in {EmptyDict, [u \in {"u2"} |-> DefaultProgress]},
                    ins \in InputRuns}

NextRead ==
    \/ \E u \in Users : LoadProgress(u)
    \/ \E u \in Users : GetRecommendations(u)
    \/ \E u \in Users : GetUserDashboard(u)
    \/ \E u \in Users, generated \in GenerationOutcomes :
          GenerateLesson(u, generated)
    \/ \E u \in Users, t \in SubmissionTopics, lookup \in LookupOutcomes :
          \E generated \in GenerationRuns, quiz \in GeneratedQuizzes :
             CreateLearningPackage(u, t, lookup, generated, quiz)
    \/ \E quiz \in SubmittedQuizzes : \E answers \in SubmittedAnswers(quiz) :
          QuizAgentEvaluateQuiz(quiz, answers)

SpecRead == InitRead /\ [][NextRead]_vars

-----------------------------------------------------------------------------
(* The difficulty policy as a pure function: calculate_difficulty applied *)
(* to two histories and a window (SpecWindow), and to one history under   *)
(* each configuration of the cut points (SpecThreshold).                  *)

WindowPercentages == {0, 75, 100}
ThresholdPercentages == {0, 65, 87, 100}

HistoriesOver(percentages) ==
    UNION {[1..n -> {[percentage |-> p * PctScale] : p \in percentages}] :
              n \in 0..MaxHistoryLen}

InitWindow ==
    /\ Idle
    /\ SaveUnused
    /\ ParseIdle
    /\ EvalIdle
    /\ cfg = Config
    /\ history \in HistoriesOver(WindowPercentages)
    /\ history2 \in HistoriesOver(WindowPercentages)
    /\ window \in 0..MaxWindow
    /\ tier = "none"
    /\ tier2 = "none"

InitThreshold ==
    /\ Idle
    /\ SaveUnused
    /\ ParseIdle
    /\ EvalIdle
    /\ cfg \in Configs
    /\ history \in HistoriesOver(ThresholdPercentages)
    /\ history2 = NoHistory
    /\ window \in 1..MaxWindow
    /\ tier = "none"
    /\ tier2 = "none"

\* the two calls calculate_difficulty(history, window),
\* calculate_difficulty(history2, window)
ComputeDifficulty ==
    /\ tier = "none"
    /\ tier' = calculate_difficulty(history, window)
    /\ tier2' = calculate_difficulty(history2, window)
    /\ UNCHANGED <<data, result, cfg, history, history2, window>>
    /\ UNCHANGED <<saveVars, parseVars, evalVars>>

SpecWindow == InitWindow /\ [][ComputeDifficulty]_vars

SpecThreshold == InitThreshold /\ [][ComputeDifficulty]_vars

-----------------------------------------------------------------------------
(* save_user_progress on the file, with crashes (SpecSave) *)

OneQuiz ==
    [topics_studied |-> <<"t1">>,
     quiz_scores |-> <<QuizRecord("t1", 1, 1)>>,
     current_difficulty |-> "advanced", total_time |-> 0]

\* progress records given to save_user_progress
SavedProgress == {DefaultProgress, OneQuiz}

\* the stores the file holds when the model starts
InitialStores ==
    {EmptyDict,
     [u \in {"u1"} |-> OneQuiz],
     [u \in {"u1", "u2"} |-> IF u = "u1" THEN OneQuiz ELSE DefaultProgress]}

InitSave ==
    /\ Idle
    /\ cfg = Config
    /\ PolicyIdle
    /\ ParseIdle
    /\ EvalIdle
    /\ SaveIdle
    /\ disk \in {NoFile} \cup {FileOf(d) : d \in InitialStores}
    /\ disk_before = disk

NextSave ==
    \/ \E u \in Users, p \in SavedProgress : SaveCall(u, p)
    \/ SaveRead
    \/ SaveOpen
    \/ SaveWrite
    \/ SaveReturn
    \/ Crash
    \/ Resume
    \/ \E u \in Users : LoadUserProgress(u)

SpecSave == InitSave /\ [][NextSave]_vars

-----------------------------------------------------------------------------
(* The quiz parser as a pure function (SpecParse): _parse_quiz applied to *)
(* each of the quiz texts.                                                *)

InitParse ==
    /\ Idle
    /\ cfg = Config
    /\ PolicyIdle
    /\ SaveUnused
    /\ EvalIdle
    /\ parse_text \in QuizTexts
    /\ parsed = NotParsed

\* QuizAgent._parse_quiz(parse_text) returns or raises
ParseQuiz ==
    /\ parsed.state = "none"
    /\ LET r == _parse_quiz(parse_text)
       IN  parsed' = [state |-> IF r.raised THEN "IndexError" ELSE "returned",
                      questions |-> r.questions]
    /\ UNCHANGED <<parse_text, storeVars, cfg, policyVars, saveVars, evalVars>>

SpecParse == InitParse /\ [][ParseQuiz]_vars

-----------------------------------------------------------------------------
(* The engine with all the operations that write the store (SpecEngine):   *)
(* the steps of Spec, and save_progress called with a record of the        *)
(* caller's choice.                                                        *)

InitEngine == Init

NextEngine ==
    \/ \E u \in Users, in \in QuizInputs :
          UpdateQuizScore(u, in[1], in[2], in[3])
    \/ \E u \in Users : ResetProgress(u)
    \/ \E u \in Users, progress_data \in SavedProgress :
          SaveProgress(u, progress_data)
    \/ \E u \in Users, t \in SubmissionTopics, quiz \in SubmittedQuizzes :
          \E answers \in SubmittedAnswers(quiz) :
             OrchestratorEvaluateQuiz(quiz, answers, t, u)
    \/ \E u \in Users : LoadProgress(u)

SpecEngine == InitEngine /\ [][NextEngine]_vars

-----------------------------------------------------------------------------
(* The quiz evaluator as a pure function (SpecEval): evaluate_quiz applied *)
(* to quizzes whose correct label is a key of the options, and to answer   *)
(* sheets that answer any subset of the indices.                           *)

QuestionWith(keys, correct) ==
    [question |-> <<"x">>,
     options |-> [k \in keys |-> <<"o">>],
     correct |-> correct,
     explanation |-> <<"e">>]

EvalQuestions ==
    {QuestionWith({Label("A"), Label("B")}, Label("A")),
     QuestionWith({Label("a"), Label("b")}, Label("b"))}

EvalQuizzes == UNION {[1..n -> EvalQuestions] : n \in 0..MaxQuestions}

\* labels a user submits
SubmittedLabels == {Label("A"), Label("a"), Label("B"), Label("b"), <<>>}

AnswerSheets(n) ==
    UNION {[idx -> SubmittedLabels] : idx \in SUBSET (0..(n - 1))}

InitEval ==
    /\ Idle
    /\ cfg = Config
    /\ PolicyIdle
    /\ SaveUnused
    /\ ParseIdle
    /\ eval_questions \in EvalQuizzes
    /\ eval_answers \in AnswerSheets(Len(eval_questions))
    /\ evaluated = NotEvaluated

\* QuizAgent.evaluate_quiz(eval_questions, eval_answers) returns
EvaluateQuiz ==
    /\ evaluated.state = "none"
    /\ evaluated' = [state |-> "returned",
                     value |-> evaluate_quiz(eval_questions, eval_answers)]
    /\ UNCHANGED <<eval_questions, eval_answers>>
    /\ UNCHANGED <<storeVars, cfg, policyVars, saveVars, parseVars>>

SpecEval == InitEval /\ [][EvaluateQuiz]_vars

-----------------------------------------------------------------------------
(* Claims *)

Tiers == {"beginner", "intermediate", "advanced"}

\* C1: in every state reached by quiz submissions and resets, each user's
\* persisted current_difficulty is the difficulty policy, with the configured
\* recent window, applied to that user's persisted quiz history.
C1_DifficultyDerivable ==
    \A u \in DOMAIN data :
        data[u].current_difficulty =
            calculate_difficulty(data[u].quiz_scores, cfg.RECENT_SCORES_COUNT)

\* C1 witness: a submission left a history longer than the window whose tier
\* (advanced) is not the tier of the whole history.
C1_Witness ==
    /\ result.op = "update_quiz_score"
    /\ result.status = "ok"
    /\ LET p == data[result.user]
       IN  /\ Len(p.quiz_scores) > cfg.RECENT_SCORES_COUNT
           /\ p.current_difficulty = "advanced"
           /\ SumPercentage(p.quiz_scores) < 85 * PctScale * Len(p.quiz_scores)

\* C2 (as claimed): a record with total <= 0 never reaches the store: every
\* update_quiz_score call with total <= 0 ends in an error and leaves the
\* persisted progress as it was, so no persisted history holds such a record.
C2_NonPositiveTotalRejected ==
    \A u \in DOMAIN data :
        \A i \in 1..Len(data[u].quiz_scores) : data[u].quiz_scores[i].total > 0

\* the last k entries of a history
LastEntries(h, k) == [i \in 1..k |-> h[Len(h) - k + i]]

\* C8 (as claimed): for every window w >= 0 the tier depends only on the last
\* min(w, len(H)) entries: two histories that agree on them get the same tier,
\* and the call returns a tier (no error) also when w exceeds len(H).
C8_DependsOnlyOnWindow ==
    tier # "none" =>
        /\ tier \in Tiers
        /\ tier2 \in Tiers
        /\ LastEntries(history, Min(window, Len(history)))
             = LastEntries(history2, Min(window, Len(history2)))
           => tier = tier2

\* the tier the configured cut points give to the mean of the last
\* min(w, len(H)) percentages
ConfiguredTier(h, w, c) ==
    LET recent == LastEntries(h, Min(w, Len(h)))
        n == Len(recent)
        sum == SumPercentage(recent)
    IN  IF n = 0 THEN "beginner"
        ELSE IF sum >= c.ADVANCED_THRESHOLD * PctScale * n THEN "advanced"
        ELSE IF sum >= c.INTERMEDIATE_THRESHOLD * PctScale * n THEN "intermediate"
        ELSE "beginner"

\* C9 (as claimed): for any configured ADVANCED_THRESHOLD > INTERMEDIATE_THRESHOLD
\* the tier is advanced if the window's mean percentage is >= the advanced
\* threshold, else intermediate if it is >= the intermediate threshold, else
\* beginner; an empty history gives beginner.
C9_ConfiguredThresholds ==
    tier # "none" => tier = ConfiguredTier(history, window, cfg)

\* the file save_user_progress leaves when it runs to its end
FileAfterSave ==
    FileOf(save_user_progress(
               IF disk_before.exists THEN Parsed(disk_before) ELSE EmptyDict,
               save_args.user_id, save_args.progress_data))

\* C3 (as claimed): a crash at any step inside save_user_progress leaves the
\* store holding the complete content from before the save or the complete
\* content after it, never an empty or partially written file.
C3_CrashSafeSave ==
    (save_pc = "crashed" /\ disk_before.exists /\ Readable(disk_before))
        => disk \in {disk_before, FileAfterSave}

\* C4 (as claimed): every question _parse_quiz returns has its correct label
\* among the keys of its options (a block whose declared correct letter is no
\* key of its own options is discarded).
C4_CorrectAmongOptions ==
    \A i \in 1..Len(parsed.questions) :
        parsed.questions[i].correct \in DOMAIN parsed.questions[i].options

\* C5 (as claimed): _parse_quiz raises on no input text; a block whose
\* correct-answer line has nothing after the separator is silently dropped.
C5_ParserNeverRaises ==
    parsed.state \in {"none", "returned"}

\* C6 (as claimed): every question _parse_quiz returns has non-empty question
\* text and at least 2 options.
C6_TextAndTwoOptions ==
    \A i \in 1..Len(parsed.questions) :
        /\ parsed.questions[i].question # <<>>
        /\ Cardinality(DOMAIN parsed.questions[i].options) >= 2

\* The blocks of the parser's input and what a block declares, read off its
\* lines.
TextBlocks == Split(parse_text, Separator)

QuestionLineSet(lines) == {i \in 1..Len(lines) : StartsWith(lines[i], <<"Q">>)}
OptionLineSet(lines) == {i \in 1..Len(lines) : IsOptionLine(lines[i])}
CorrectLineSet(lines) == {i \in 1..Len(lines) : StartsWith(lines[i], CorrectPrefix)}
ExplanationLineSet(lines) ==
    {i \in 1..Len(lines) : StartsWith(lines[i], ExplanationPrefix)}

\* the text of a line after its first n characters, stripped
After(line, n) == Strip(SubSeq(line, n + 1, Len(line)))

QuestionBody(lines) ==
    LET line == lines[CHOOSE i \in QuestionLineSet(lines) : TRUE]
    IN  After(line, Find(line, <<":">>))

DeclaredCorrect(lines) ==
    LET line == lines[CHOOSE i \in CorrectLineSet(lines) : TRUE]
        rest == After(line, Len(CorrectPrefix))
    IN  IF rest = <<>> THEN <<>> ELSE Upper(<<rest[1]>>)

OptionKeys(lines) == {<<lines[i][1]>> : i \in OptionLineSet(lines)}

\* one question line with text, at least two option lines, one correct-answer
\* line naming one of those options
WellFormed(lines) ==
    /\ Cardinality(QuestionLineSet(lines)) = 1
    /\ QuestionBody(lines) # <<>>
    /\ Cardinality(OptionLineSet(lines)) >= 2
    /\ Cardinality(CorrectLineSet(lines)) = 1
    /\ DeclaredCorrect(lines) \in OptionKeys(lines)

\* q is the question the block declares
QuestionOf(lines, q) ==
    /\ q.question = QuestionBody(lines)
    /\ DOMAIN q.options = OptionKeys(lines)
    /\ q.correct = DeclaredCorrect(lines)
    /\ ExplanationLineSet(lines) = {} => q.explanation = <<>>

InReturned(lines) ==
    \E i \in 1..Len(parsed.questions) : QuestionOf(lines, parsed.questions[i])

LowerChar(c) ==
    CASE c = "A" -> "a"
      [] c = "B" -> "b"
      [] c = "C" -> "c"
      [] c = "D" -> "d"
      [] OTHER -> c

\* two labels are equal ignoring letter case
SameLabel(x, y) ==
    /\ Len(x) = Len(y)
    /\ \A i \in 1..Len(x) : LowerChar(x[i]) = LowerChar(y[i])

\* C10: for questions whose correct label is a key of the options,
\* evaluate_quiz returns one result per question; item i is marked correct
\* exactly when the answer submitted for i equals the correct label ignoring
\* case, and an index with no submitted answer is marked incorrect with
\* submitted answer "".
C10_CaseInsensitiveGrading ==
    evaluated.state # "none" =>
        /\ evaluated.state = "returned"
        /\ Len(evaluated.value.results) = Len(eval_questions)
        /\ \A i \in 0..(Len(eval_questions) - 1) :
              LET item == evaluated.value.results[i + 1]
                  correct == eval_questions[i + 1].correct
              IN  correct \in DOMAIN eval_questions[i + 1].options =>
                    /\ i \in DOMAIN eval_answers =>
                          /\ item.user_answer = eval_answers[i]
                          /\ item.is_correct <=> SameLabel(eval_answers[i], correct)
                    /\ i \notin DOMAIN eval_answers =>
                          /\ item.user_answer = <<>>
                          /\ ~item.is_correct

\* C10 witness: an evaluation in which an answer written in the other case is
\* marked correct and an unanswered index is marked incorrect.
C10_Witness ==
    /\ evaluated.state = "returned"
    /\ \E i \in DOMAIN eval_answers :
          /\ eval_answers[i] # eval_questions[i + 1].correct
          /\ evaluated.value.results[i + 1].is_correct
    /\ \E i \in 0..(Len(eval_questions) - 1) :
          /\ i \notin DOMAIN eval_answers
          /\ ~evaluated.value.results[i + 1].is_correct

\* C11: evaluate_quiz returns total = number of questions, score = number of
\* items marked correct (0 <= score <= total) and percentage = 100 * score /
\* total, which is 0, with no error, for a quiz of no questions; when every
\* submitted answer equals its question's correct label on a non-empty quiz,
\* score = total and percentage = 100.
C11_ScoreTotalPercentage ==
    evaluated.state # "none" =>
        LET v == evaluated.value
            n == Len(eval_questions)
            marked == {k \in 1..Len(v.results) : v.results[k].is_correct}
            all_right == \A i \in 0..(n - 1) :
                            /\ i \in DOMAIN eval_answers
                            /\ eval_answers[i] = eval_questions[i + 1].correct
        IN  /\ evaluated.state = "returned"
            /\ v.total = n
            /\ v.score = Cardinality(marked)
            /\ 0 <= v.score /\ v.score <= v.total
            /\ n = 0 => v.percentage = 0
            /\ n > 0 => v.percentage * v.total = 100 * v.score * PctScale
            /\ (n > 0 /\ all_right) =>
                  /\ v.score = v.total
                  /\ v.percentage = 100 * PctScale

\* C11 witness: a quiz of MaxQuestions questions, every one answered with its
\* correct label, evaluated to a full score.
C11_Witness ==
    /\ evaluated.state = "returned"
    /\ Len(eval_questions) = MaxQuestions
    /\ \A i \in 0..(MaxQuestions - 1) :
          /\ i \in DOMAIN eval_answers
          /\ eval_answers[i] = eval_questions[i + 1].correct
    /\ evaluated.value.score = MaxQuestions
    /\ evaluated.value.percentage = 100 * PctScale

\* C12: when the quiz submission flow returns, the user's persisted history
\* has exactly one more record than before, carrying the evaluation's score
\* and total; the returned new_difficulty is the persisted current_difficulty;
\* and the returned recommendation is the one computed from the persisted
\* history, which already includes the new record.
C12_EvaluateAppendRecommend ==
    [][(result'.op = "evaluate_quiz" /\ result'.status = "ok") =>
          LET u == result'.user
              before == load_user_progress(data, u).quiz_scores
              v == result'.value
          IN  /\ u \in DOMAIN data'
              /\ Len(data'[u].quiz_scores) = Len(before) + 1
              /\ data'[u].quiz_scores[Len(before) + 1].score = v.score
              /\ data'[u].quiz_scores[Len(before) + 1].total = v.total
              /\ v.new_difficulty = data'[u].current_difficulty
              /\ v.recommendation = get_recommendations(data', u).suggestion
    ]_vars

\* C12 witness: a submission has returned for a user with earlier records,
\* and its recommendation is not the one the history without the new record
\* gives.
C12_Witness ==
    /\ result.op = "evaluate_quiz"
    /\ result.status = "ok"
    /\ LET u == result.user
           h == data[u].quiz_scores
           older == [data[u] EXCEPT !.quiz_scores = SubSeq(h, 1, Len(h) - 1)]
       IN  /\ Len(h) >= 2
           /\ result.value.recommendation
                 # get_recommendations(DictSet(data, u, older), u).suggestion

\* C13 (as claimed): every record in any user's persisted history, after any
\* sequence of update_quiz_score calls and resets, has 0 <= score <= total
\* and percentage = 100 * score / total.
C13_RecordsWellFormed ==
    \A u \in DOMAIN data :
        \A i \in 1..Len(data[u].quiz_scores) :
            LET r == data[u].quiz_scores[i]
            IN  /\ 0 <= r.score
                /\ r.score <= r.total
                /\ r.percentage * r.total = 100 * r.score * PctScale

\* C14: load tells an absent record from an unreadable store.  For a user
\* with no record in a readable store load_user_progress returns the default
\* record without error; on a corrupt store it ends in an error, does not
\* return the default record, and leaves the file as it was, unrepaired.
C14_AbsentVersusCorrupt ==
    [][\A u \in Users :
          LoadUserProgress(u) =>
              /\ (disk.exists /\ Readable(disk) /\ u \notin DOMAIN Parsed(disk)) =>
                    /\ result'.status = "ok"
                    /\ result'.value = DefaultProgress
              /\ (disk.exists /\ ~Readable(disk)) =>
                    /\ result'.status # "ok"
                    /\ result'.value # DefaultProgress
                    /\ disk' = disk
                    /\ ~Readable(disk')
    ]_vars

\* C14 witness: a load has ended in an error on a file that a crashed save
\* left partly written.
C14_Witness ==
    /\ result.op = "load_user_progress"
    /\ result.status = "JSONDecodeError"
    /\ disk.exists
    /\ disk.text # <<>>
    /\ ~Readable(disk)

\* C16: round trip.  save_user_progress(user_id, P) followed by
\* load_user_progress(user_id) on the same file returns a record equal to P.
C16_SaveLoadRoundTrip ==
    (/\ save_pc = "done"
     /\ result.op = "load_user_progress"
     /\ result.user = save_args.user_id)
        => /\ result.status = "ok"
           /\ result.value = save_args.progress_data

\* C16 witness: the load after a save that replaced a different record of
\* the same user, in a file that also holds another user, returned P.
C16_Witness ==
    /\ save_pc = "done"
    /\ result.op = "load_user_progress"
    /\ result.user = save_args.user_id
    /\ result.value = save_args.progress_data
    /\ disk_before.exists
    /\ Readable(disk_before)
    /\ save_args.user_id \in DOMAIN Parsed(disk_before)
    /\ Parsed(disk_before)[save_args.user_id] # save_args.progress_data
    /\ DOMAIN Parsed(disk) # {save_args.user_id}

\* the fresh record: no topics, no quiz scores, beginner, no time
FreshRecord(p) ==
    /\ p.topics_studied = <<>>
    /\ p.quiz_scores = <<>>
    /\ p.current_difficulty = "beginner"
    /\ p.total_time = 0

\* C15: reset_progress(user_id) followed by load_progress(user_id) yields
\* {topics_studied: [], quiz_scores: [], current_difficulty: "beginner",
\* total_time: 0} whatever the user's state before the reset, and resetting
\* twice gives the same state as resetting once.
C15_ResetThenLoad ==
    [][\A u \in Users :
          /\ ResetProgress(u) =>
                /\ u \in DOMAIN data'
                /\ FreshRecord(data'[u])
                /\ FreshRecord(load_user_progress(data', u))
          /\ (LoadProgress(u) /\ result.op = "reset_progress" /\ result.user = u) =>
                /\ result'.status = "ok"
                /\ FreshRecord(result'.value)
          /\ (ResetProgress(u) /\ result.op = "reset_progress" /\ result.user = u) =>
                data' = data
    ]_vars

\* C15 witness: load_progress has returned the fresh record for a user whose
\* record a reset wrote, while the other user keeps a history.
C15_Witness ==
    /\ result.op = "load_progress"
    /\ result.user \in DOMAIN data
    /\ FreshRecord(data[result.user])
    /\ FreshRecord(result.value)
    /\ \E u \in DOMAIN data : data[u].quiz_scores # <<>>

\* a is the mean of the percentages of h rounded to one decimal place (a in
\* tenths of a percent): no tenth is nearer to the mean
NearestTenth(a, h) ==
    LET den == Len(h) * PctScale
    IN  2 * Abs(10 * SumPercentage(h) - a * den) <= den

\* C17 (as claimed): get_recommendations reports average_score as the mean
\* percentage over the whole history rounded to one decimal place, 0 for an
\* empty history, and the suggestion is the band the reported average falls
\* in: the start message for an empty history, the advance message from 80,
\* the continue message from 60, the review message below.
C17_BandOfReportedAverage ==
    result.op = "get_recommendations" =>
        LET h == load_user_progress(data, result.user).quiz_scores
            v == result.value
        IN  IF h = <<>>
            THEN /\ v.average_score = 0
                 /\ v.suggestion = StartMessage
            ELSE /\ NearestTenth(v.average_score, h)
                 /\ v.suggestion =
                       IF v.average_score >= 800 THEN AdvanceMessage
                       ELSE IF v.average_score >= 600 THEN ContinueMessage
                       ELSE ReviewMessage

\* a generate_content call made while create_learning_package ran has failed:
\* the research summary (asked for after a successful lookup), the learning
\* plan, or the quiz (asked for after the plan)
GenerationFailed(lookup, generated) ==
    \/ lookup = "summary" /\ generated.research = "GenerationError"
    \/ generated.plan = "GenerationError"
    \/ generated.plan = "text" /\ generated.quiz = "GenerationError"

\* C18 (as claimed): a failure of the content generation at any point while
\* create_learning_package runs (research summary, learning plan or quiz) is
\* fatal to the request: the call ends in an error, no learning package,
\* complete or partial, is returned, and the persisted progress is unchanged.
C18_GenerationFailureFatal ==
    [][\A u \in Users, t \in SubmissionTopics, lookup \in LookupOutcomes :
          \A generated \in GenerationRuns, quiz \in GeneratedQuizzes :
             (/\ CreateLearningPackage(u, t, lookup, generated, quiz)
              /\ GenerationFailed(lookup, generated))
                 => /\ result'.status # "ok"
                    /\ result'.value = NoValue
                    /\ data' = data
    ]_vars

\* the step is a quiz submission for user u: update_quiz_score, or the
\* orchestrator's evaluate_quiz (every operation leaves its name in result)
Submits(u) ==
    /\ result'.op \in {"update_quiz_score", "evaluate_quiz"}
    /\ result'.user = u

\* history h is the first Len(h) records of history g, in the same order
IsPrefix(h, g) == Len(h) <= Len(g) /\ SubSeq(g, 1, Len(h)) = h

\* C19: the quiz history is append-only.  Every submission for a user that
\* returns extends the persisted history by exactly one record at the end,
\* and in every step that is no reset of that user the old history is a
\* prefix of the new one (a submission that ends in an error, and every
\* operation for another user, leave it as it is).
C19_AppendOnly ==
    [][\A u \in Users :
          LET before == load_user_progress(data, u).quiz_scores
              after == load_user_progress(data', u).quiz_scores
          IN  /\ (Submits(u) /\ result'.status = "ok") =>
                    /\ Len(after) = Len(before) + 1
                    /\ IsPrefix(before, after)
              /\ (Submits(u) /\ result'.status # "ok") => after = before
              /\ ~ResetProgress(u) => IsPrefix(before, after)
    ]_vars

\* C19 witness: a submission has returned for a user whose history then holds
\* three records that are not all the same.
C19_Witness ==
    /\ result.op \in {"update_quiz_score", "evaluate_quiz"}
    /\ result.status = "ok"
    /\ LET h == data[result.user].quiz_scores
       IN  /\ Len(h) >= 3
           /\ h[1] # h[2]
           /\ h[2] # h[3]

\* the operations that read the progress
ReadOperations ==
    {"create_learning_package", "generate_lesson", "get_user_dashboard",
     "get_recommendations", "load_progress", "QuizAgent.evaluate_quiz"}

\* C20: create_learning_package, generate_lesson, get_user_dashboard,
\* get_recommendations, load_progress and QuizAgent.evaluate_quiz leave every
\* user's persisted record unchanged, whether they return or raise, and
\* create no record for a user seen for the first time.
C20_ReadsLeaveProgress ==
    [][/\ result'.op \in ReadOperations
       /\ DOMAIN data' = DOMAIN data
       /\ \A u \in DOMAIN data : data'[u] = data[u]
    ]_vars

\* C20 witness: the dashboard has been returned for a user with no record,
\* in a store that holds another user's history, and there is still no
\* record of that user.
C20_Witness ==
    /\ result.op = "get_user_dashboard"
    /\ result.user \notin DOMAIN data
    /\ result.value.total_quizzes = 0
    /\ \E u \in DOMAIN data : data[u].quiz_scores # <<>>

\* the last RECENT_SCORES_COUNT records of history h all have percentage pct
LastSubmissionsScored(h, pct) ==
    /\ cfg.RECENT_SCORES_COUNT >= 1
    /\ Len(h) >= cfg.RECENT_SCORES_COUNT
    /\ \A i \in (Len(h) - cfg.RECENT_SCORES_COUNT + 1)..Len(h) :
          h[i].percentage = pct * PctScale

\* C21: no hysteresis.  Whenever the last RECENT_SCORES_COUNT submissions of
\* a user (none of them undone by a reset) each scored 100% the persisted
\* current_difficulty is advanced, and whenever they each scored 0% it is
\* beginner, whatever the earlier history and the tier held before.
C21_RisesAndFallsFreely ==
    \A u \in DOMAIN data :
        /\ LastSubmissionsScored(data[u].quiz_scores, 100) =>
              data[u].current_difficulty = "advanced"
        /\ LastSubmissionsScored(data[u].quiz_scores, 0) =>
              data[u].current_difficulty = "beginner"

\* C21 witness: a user who held advanced after a first submission of 100%
\* is beginner after RECENT_SCORES_COUNT further submissions of 0%.
C21_Witness ==
    \E u \in DOMAIN data :
        LET h == data[u].quiz_scores
        IN  /\ Len(h) = cfg.RECENT_SCORES_COUNT + 1
            /\ h[1].percentage = 100 * PctScale
            /\ calculate_difficulty(<<h[1]>>, cfg.RECENT_SCORES_COUNT) = "advanced"
            /\ LastSubmissionsScored(h, 0)
            /\ data[u].current_difficulty = "beginner"

\* the lines of a text grouped into blocks that end where a line holds the
\* separator token and nothing else
RECURSIVE GroupAtSeparatorLines(_, _)
GroupAtSeparatorLines(lines, block) ==
    IF lines = <<>> THEN <<JoinLines(block)>>
    ELSE IF Strip(Head(lines)) = Separator
         THEN <<JoinLines(block)>> \o GroupAtSeparatorLines(Tail(lines), <<>>)
         ELSE GroupAtSeparatorLines(Tail(lines), Append(block, Head(lines)))

SeparatorLineBlocks(text) == GroupAtSeparatorLines(Split(text, <<NL>>), <<>>)

\* C22: the parser splits its input into blocks only where the separator
\* token occupies a line of its own: what it returns (or raises) is what
\* parsing the blocks between the separator lines gives, so a separator
\* token inside a question, option or explanation line splits no block and
\* changes no returned question.
C22_SplitsOnlyAtSeparatorLines ==
    parsed.state # "none" =>
        LET r == ParseBlocks(SeparatorLineBlocks(parse_text))
        IN  /\ parsed.state = (IF r.raised THEN "IndexError" ELSE "returned")
            /\ parsed.questions = r.questions

\* the record persisted for user_id in the store d, if there is one
Persisted(d, user_id) ==
    IF user_id \in DOMAIN d THEN d[user_id] ELSE NoValue

\* C23: operations on one user never alter another user's record.  In every
\* step, a save_progress, update_quiz_score, evaluate_quiz, reset_progress
\* or load_progress call for the user named in the result, every other user
\* has the same persisted record after the call as before it, and no
\* record where there was none.
C23_OtherUsersUntouched ==
    [][\A b \in Users :
          result'.user # b => Persisted(data', b) = Persisted(data, b)]_vars

\* C23 witness: save_progress has just overwritten the record of one user
\* while another user holds a history of two records, and an update and a
\* reset of one user have left a record of the other behind.
C23_Witness ==
    \E a \in Users, b \in Users :
        /\ a # b
        /\ result.op = "save_progress" /\ result.user = a
        /\ a \in DOMAIN data /\ data[a] = OneQuiz
        /\ b \in DOMAIN data /\ Len(data[b].quiz_scores) = 2

====
